---------------------------- MODULE Spec2Model ----------------------------
(***************************************************************************)
(* A model of the numeric core of topological-stitching: the stability     *)
(* equation sqrt(1 - m^2) - m*(pi*N - arccos(-m)) = 0, its solution with   *)
(* scipy's fsolve seeded at 1/(pi*N), the mass proxy N*sqrt(1 - m^2), the  *)
(* sweep over harmonic numbers, and the nearest-ratio search.              *)
(*                                                                         *)
(* Floating point values are modelled in fixed point: the real x is the    *)
(* integer x*Scale, rounded toward zero.  The two non-finite floats the    *)
(* code can produce (nan, inf) are the values NaN and Inf.                 *)
(*                                                                         *)
(* The three scripts take no arguments: their literals (the anchor N_e,    *)
(* the arguments of np.arange, the target ratios) are the inputs of the    *)
(* model, drawn from small sets.                                           *)
(***************************************************************************)
EXTENDS Integers, Sequences, FiniteSets

\* ------------------------------------------------------------------------
\* Fixed-point arithmetic
\* ------------------------------------------------------------------------

\* One unit of the fixed-point grid is 1/Scale.
Scale == 10000

\* np.nan and np.inf: values no finite fixed-point number takes.
NaN == 2000000001
Inf == 2000000000

IsFinite(x) == x # NaN /\ x # Inf

Abs(x) == IF x < 0 THEN -x ELSE x

Sign(x) == IF x < 0 THEN -1 ELSE 1

\* a / b rounded toward zero, for b # 0.
Quot(a, b) == Sign(a) * Sign(b) * (Abs(a) \div Abs(b))

\* x * y / Scale for x, y >= 0, the product taken in parts so that no
\* intermediate value exceeds 2^31.
MulParts(xq, xr, yq, yr) ==
    xq * yq * Scale + xq * yr + xr * yq + (xr * yr) \div Scale

\* a * b / Scale rounded toward zero.
FMul(a, b) ==
    Sign(a) * Sign(b)
      * MulParts(Abs(a) \div Scale, Abs(a) % Scale,
                 Abs(b) \div Scale, Abs(b) % Scale)

\* A quotient and a remainder, the remainder brought back below y.
Carry(qr, y) == IF qr[2] >= y THEN <<qr[1] + 1, qr[2] - y>> ELSE qr

\* <<(r * s) \div y, (r * s) % y>> for 0 <= r < y, by doubling, so that no
\* intermediate value exceeds 2 * y.
RECURSIVE ScaledDiv(_, _, _)
ScaledDivStep(half, r, s, y) ==
    IF s % 2 = 1
    THEN Carry(<<Carry(<<2 * half[1], 2 * half[2]>>, y)[1],
                 Carry(<<2 * half[1], 2 * half[2]>>, y)[2] + r>>, y)
    ELSE Carry(<<2 * half[1], 2 * half[2]>>, y)
ScaledDiv(r, s, y) ==
    IF s = 0 THEN <<0, 0>> ELSE ScaledDivStep(ScaledDiv(r, s \div 2, y), r, s, y)

\* x * Scale / y for x >= 0, y > 0, by long division.
DivParts(x, y) == (x \div y) * Scale + ScaledDiv(x % y, Scale, y)[1]

\* a * Scale / b rounded toward zero, for b # 0.
FQuot(a, b) == Sign(a) * Sign(b) * DivParts(Abs(a), Abs(b))

\* np.pi
Pi == (31416 * Scale) \div 10000

\* floor(sqrt(n)) by Newton's iteration from x >= sqrt(n).
RECURSIVE SqrtIter(_, _)
SqrtStep(n, x, y) == IF y >= x THEN x ELSE SqrtIter(n, y)

SqrtIter(n, x) == SqrtStep(n, x, (x + n \div x) \div 2)

ISqrt(n) == IF n <= 0 THEN 0 ELSE SqrtIter(n, n)

\* np.sqrt(x): nan for a negative argument and for nan.
Sqrt(x) ==
    IF x = NaN THEN NaN
    ELSE IF x < 0 THEN NaN
    ELSE ISqrt(x * Scale)

\* arcsin(x) for 0 <= x <= 1/2 by its power series through x^13,
\* x + x^3/6 + 3x^5/40 + 15x^7/336 + 105x^9/3456 + 945x^11/42240
\*   + 10395x^13/599040, summed by Horner's rule in x2 = x^2.
ArcsinHorner(x, x2) ==
    FMul(x, Scale + FMul(x2, Scale \div 6
          + FMul(x2, (3 * Scale) \div 40
          + FMul(x2, (15 * Scale) \div 336
          + FMul(x2, (105 * Scale) \div 3456
          + FMul(x2, (945 * Scale) \div 42240
          + FMul(x2, (10395 * Scale) \div 599040)))))))

ArcsinSeries(x) == ArcsinHorner(x, FMul(x, x))

\* arcsin(x) for 0 <= x <= 1: above 1/2 by the half-angle identity
\* arcsin(x) = pi/2 - 2*arcsin(sqrt((1 - x)/2)).
ArcsinPos(x) ==
    IF 2 * x <= Scale THEN ArcsinSeries(x)
    ELSE Pi \div 2 - 2 * ArcsinSeries(ISqrt(((Scale - x) * Scale) \div 2))

\* np.arccos(x): nan outside [-1, 1].
Arccos(x) ==
    IF ~IsFinite(x) THEN NaN
    ELSE IF Abs(x) > Scale THEN NaN
    ELSE Pi \div 2 - Sign(x) * ArcsinPos(Abs(x))

\* 1 - m**2.  For m = inf the float is -inf, whose square root is nan like
\* that of every negative number: nan stands for it.
OneMinusSq(m) == IF ~IsFinite(m) THEN NaN ELSE Scale - FMul(m, m)

\* ------------------------------------------------------------------------
\* The stability equation, as each script writes it
\* ------------------------------------------------------------------------

\* The value the guarded equation returns for abs(m) > 1.
Penalty == 100 * Scale

\* root - m*(pi*N - acos) on floats: nan as soon as root or acos is nan.
ResidualOf(m, N, root, acos) ==
    IF root = NaN \/ acos = NaN THEN NaN
    ELSE root - FMul(m, Pi * N - acos)

\* sqrt(1 - m^2) - m*(pi*N - arccos(-m)) with both np.sqrt and np.arccos
\* evaluated at m whatever m is.
Residual(m, N) ==
    ResidualOf(m, N, Sqrt(OneMinusSq(m)), Arccos(IF IsFinite(m) THEN -m ELSE m))

\* mass_spectrum.py, solve_drift: the lambda has no domain guard.
func(m, N) == Residual(m, N)

\* equation(m, N) with the harmonic number dropped from pi*N.
equation_q_noN(m, N) == Residual(m, 1)

\* quantized_spectrum.py, equation(m, N): no domain guard either.
equation_q(m, N) == Residual(m, N)

\* find_the_neutrino.py, equation(m): "if abs(m) > 1: return 100".
\* abs(nan) > 1 is False, abs(inf) > 1 is True.
equation_n(m, N) ==
    IF m = Inf THEN Penalty
    ELSE IF m # NaN /\ Abs(m) > Scale THEN Penalty
    ELSE Residual(m, N)

Solvers == {"mass_spectrum", "quantized_spectrum", "find_the_neutrino"}

\* The equation function of the named script.
Equation(solver, m, N) ==
    CASE solver = "mass_spectrum"      -> func(m, N)
      [] solver = "quantized_spectrum" -> equation_q(m, N)
      [] solver = "find_the_neutrino"  -> equation_n(m, N)

\* ------------------------------------------------------------------------
\* scipy.optimize.fsolve on one unknown
\* ------------------------------------------------------------------------

\* The function evaluations one fsolve call may spend on its iteration.
MaxFev == 40

\* The forward-difference step of the first slope estimate: the square root
\* of the resolution, as MINPACK takes the square root of the machine epsilon.
FdStep == ISqrt(Scale)

\* MINPACK's hybrd on one unknown is a secant iteration inside a trust
\* region.  From the iterate x with residual fx and the proposed step p: the
\* trial point t = x + p, with residual ft, is accepted when ft is finite
\* and smaller in magnitude than fx, and the next step is the secant step;
\* otherwise the step is rejected and halved.  The iteration ends on a zero
\* residual, on a step below the resolution, or when the evaluations are
\* spent, and whatever iterate it then holds is returned: fsolve raises
\* nothing.
RECURSIVE Hybrd(_, _, _, _, _, _)
HybrdTrial(solver, N, x, fx, p, fev, t, ft) ==
    IF ~IsFinite(ft) \/ Abs(ft) >= Abs(fx)
    THEN Hybrd(solver, N, x, fx, Quot(p, 2), fev - 1)
    ELSE Hybrd(solver, N, t, ft, Quot(-(ft * p), ft - fx), fev - 1)

Hybrd(solver, N, x, fx, p, fev) ==
    IF fx = 0 \/ p = 0 \/ fev = 0 THEN x
    ELSE HybrdTrial(solver, N, x, fx, p, fev, x + p, Equation(solver, x + p, N))

\* The first step, from the residual fx at the guess and the residual fh one
\* forward-difference step beyond it.  A start whose residual is not finite,
\* or whose forward difference is nan or zero, is returned as it is.
HybrdStart(solver, N, guess, fx, fh) ==
    IF ~IsFinite(fx) \/ ~IsFinite(fh) \/ fh = fx THEN guess
    ELSE Hybrd(solver, N, guess, fx, Quot(-(fx * FdStep), fh - fx), MaxFev)

\* fsolve(equation, guess)[0].
fsolve(solver, N, guess) ==
    IF ~IsFinite(guess) THEN guess
    ELSE HybrdStart(solver, N, guess, Equation(solver, guess, N),
                    Equation(solver, guess + FdStep, N))

\* guess = 1.0 / (np.pi * N).  N is a numpy integer in the sweeps, so that
\* np.pi * 0 is a numpy float and the division yields inf with a warning.
Guess(N) == IF N = 0 THEN Inf ELSE Quot(Scale * Scale, Pi * N)

\* a / b on floats: nan when either is nan, 0/0 is nan, x/0 is inf.
FDiv(a, b) ==
    IF a = NaN \/ b = NaN THEN NaN
    ELSE IF b = 0 THEN (IF a = 0 THEN NaN ELSE Inf)
    ELSE IF b = Inf THEN (IF a = Inf THEN NaN ELSE 0)
    ELSE IF a = Inf THEN Inf
    ELSE FQuot(a, b)

\* ------------------------------------------------------------------------
\* mass_spectrum.py
\* ------------------------------------------------------------------------

\* solve_drift(N): the guess, fsolve, and the root returned unvalidated.
solve_drift(N) == fsolve("mass_spectrum", N, Guess(N))

\* N * v_rot on floats.
Times(N, v_rot) == IF v_rot = NaN THEN NaN ELSE N * v_rot

\* get_mass_proxy(N) = N * sqrt(1 - m^2) at m = solve_drift(N).
get_mass_proxy(N) == Times(N, Sqrt(OneMinusSq(solve_drift(N))))

\* np.arange(start, stop): start, start+1, ..., stop-1; empty if stop <= start.
arange(start, stop) ==
    IF stop <= start THEN <<>> ELSE [i \in 1 .. (stop - start) |-> start + i - 1]

\* np.abs(ratio - target)
Dist(ratio, target) ==
    IF ratio = NaN THEN NaN
    ELSE IF ratio = Inf THEN Inf
    ELSE Abs(ratio - target)

\* An argmin that returns the last index of the least value, not the first.
argmin_last(a, target) ==
    LET d(i) == Dist(a[i], target)
    IN  (CHOOSE i \in 1 .. Len(a) :
            /\ \A j \in 1 .. Len(a) : d(i) <= d(j)
            /\ \A j \in 1 .. Len(a) : d(j) = d(i) => j <= i) - 1

\* Of two indices i < j, the one np.argmin keeps: the earlier nan, else the
\* strictly smaller distance, else the earlier index.
Nearer(a, target, i, j) ==
    IF Dist(a[i], target) = NaN THEN i
    ELSE IF Dist(a[j], target) = NaN THEN j
    ELSE IF Dist(a[j], target) < Dist(a[i], target) THEN j
    ELSE i

\* np.argmin's scan of a[lo .. hi], one-based.
RECURSIVE ArgminIn(_, _, _, _)
ArgminIn(a, target, lo, hi) ==
    IF lo = hi THEN lo
    ELSE Nearer(a, target,
                ArgminIn(a, target, lo, (lo + hi) \div 2),
                ArgminIn(a, target, (lo + hi) \div 2 + 1, hi))

\* np.argmin(np.abs(a - target)) of a non-empty array, zero-based: the first
\* index of a nan if there is one, else the first index of the least value.
argmin(a, target) == ArgminIn(a, target, 1, Len(a)) - 1

\* abs(1 - q)*100 on floats.
AbsPercent(q) == IF ~IsFinite(q) THEN q ELSE Abs(Scale - q) * 100

\* The error with the quotient inverted: abs(1 - target/ratio)*100.
ReportedError_inverted(ratio, target) == AbsPercent(FDiv(target, ratio))

\* abs(1 - ratio/target)*100, the error the report prints.
ReportedError(ratio, target) == AbsPercent(FDiv(ratio, target))

\* ------------------------------------------------------------------------
\* find_the_neutrino.py
\* ------------------------------------------------------------------------

\* MASS_ELECTRON_MEV = 0.51099895
MASS_ELECTRON_MEV == (5110 * Scale) \div 10000

\* solve_for_mass_proxy(N) = N * sqrt(1 - m^2) at the root of the guarded
\* equation.
solve_for_mass_proxy(N) ==
    Times(N, Sqrt(OneMinusSq(fsolve("find_the_neutrino", N, Guess(N)))))

\* ratio * MASS_ELECTRON_MEV on floats.
predicted_mass(ratio) ==
    IF IsFinite(ratio) THEN FMul(ratio, MASS_ELECTRON_MEV) ELSE ratio

\* ------------------------------------------------------------------------
\* State
\* ------------------------------------------------------------------------

\* The largest harmonic number a script is run with.
MaxN == 6

\* A variable no statement has assigned yet.
None == 2000000002

\* The largest harmonic number quantized_spectrum.py is swept to: the script
\* itself sweeps N = 1 to 20.
MaxHarmonic == 20

\* The literals of the scripts that the model draws as inputs.
Indices == (-1) .. MaxN
Stops == (-1) .. (MaxN + 1)
Targets == {Scale \div 2, (3 * Scale) \div 2, (315 * Scale) \div 100}

VARIABLES
    script,            \* the script that runs
    pc,                \* where it is
    raised,            \* the exception that ended it, or "none"
    solve_calls,       \* the N of every call of a solver that returned
    \* mass_spectrum.py
    N_e, n_start, n_stop, Target_Ratio_Mu, Target_Ratio_Tau,
    mass_proxy_e, n_values, mass_ratios,
    idx_mu, N_mu, ratio_mu, error_mu,
    idx_tau, N_tau, ratio_tau, error_tau,
    \* quantized_spectrum.py
    N_values, m_values, spacings, spacing_plot,
    \* find_the_neutrino.py
    N_ELECTRON, fn_mass_proxy_e, mass_proxy_2, ratio_2, predicted_mass_2_mev,
    mass_proxy_1, ratio_1, predicted_mass_1_mev,
    \* one evaluation of an equation function
    eq_solver, eq_m, eq_N, eq_value

ctlVars == <<script, pc, raised, solve_calls>>
msInputs == <<N_e, n_start, n_stop, Target_Ratio_Mu, Target_Ratio_Tau>>
msSweep == <<mass_proxy_e, n_values, mass_ratios>>
msMatch == <<idx_mu, N_mu, ratio_mu, idx_tau, N_tau, ratio_tau>>
msReport == <<error_mu, error_tau>>
msVars == <<msInputs, msSweep, msMatch, msReport>>
qsVars == <<N_values, m_values, spacings, spacing_plot>>
fnVars ==
    <<N_ELECTRON, fn_mass_proxy_e, mass_proxy_2, ratio_2, predicted_mass_2_mev,
      mass_proxy_1, ratio_1, predicted_mass_1_mev>>
eqVars == <<eq_solver, eq_m, eq_N, eq_value>>

vars == <<ctlVars, msVars, qsVars, fnVars, eqVars>>

\* The variables of a script that does not run.
msIdle ==
    /\ N_e = None /\ n_start = None /\ n_stop = None
    /\ Target_Ratio_Mu = None /\ Target_Ratio_Tau = None
    /\ mass_proxy_e = None /\ n_values = <<>> /\ mass_ratios = <<>>
    /\ idx_mu = None /\ N_mu = None /\ ratio_mu = None /\ error_mu = None
    /\ idx_tau = None /\ N_tau = None /\ ratio_tau = None /\ error_tau = None

qsIdle ==
    /\ N_values = <<>> /\ m_values = <<>> /\ spacings = <<>>
    /\ spacing_plot = <<>>

fnIdle ==
    /\ N_ELECTRON = None /\ fn_mass_proxy_e = None
    /\ mass_proxy_2 = None /\ ratio_2 = None /\ predicted_mass_2_mev = None
    /\ mass_proxy_1 = None /\ ratio_1 = None /\ predicted_mass_1_mev = None

eqIdle == eq_solver = "none" /\ eq_m = None /\ eq_N = None /\ eq_value = None


\* ------------------------------------------------------------------------
\* mass_spectrum.py, analyze_mass_spectrum()
\* ------------------------------------------------------------------------

\* The two targets, the muon's below the tau's.
TargetPairs == {p \in Targets \X Targets : p[1] < p[2]}

msInit ==
    /\ script = "mass_spectrum" /\ pc = "anchor" /\ raised = "none"
    /\ solve_calls = <<>>
    /\ N_e \in Indices /\ n_start \in Indices /\ n_stop \in Stops
    /\ \E p \in TargetPairs : Target_Ratio_Mu = p[1] /\ Target_Ratio_Tau = p[2]
    /\ mass_proxy_e = None /\ n_values = <<>> /\ mass_ratios = <<>>
    /\ idx_mu = None /\ N_mu = None /\ ratio_mu = None /\ error_mu = None
    /\ idx_tau = None /\ N_tau = None /\ ratio_tau = None /\ error_tau = None
    /\ qsIdle /\ fnIdle /\ eqIdle

\* Lines 44-52: the anchor's proxy, then the sweep's indices.  N_e is a
\* Python int, so N_e = 0 makes 1.0 / (np.pi * N) raise ZeroDivisionError.
ms_Anchor ==
    /\ script = "mass_spectrum" /\ pc = "anchor"
    /\ IF N_e = 0
       THEN /\ pc' = "raised" /\ raised' = "ZeroDivisionError"
            /\ UNCHANGED <<solve_calls, msSweep>>
       ELSE /\ mass_proxy_e' = get_mass_proxy(N_e)
            /\ solve_calls' = Append(solve_calls, N_e)
            /\ n_values' = arange(n_start, n_stop)
            /\ mass_ratios' = <<>>
            /\ pc' = "sweep" /\ UNCHANGED raised
    /\ UNCHANGED <<script, msInputs, msMatch, msReport, qsVars, fnVars, eqVars>>

\* Lines 55-57, one turn of the loop: the next n's proxy over the anchor's.
ms_Sweep ==
    /\ script = "mass_spectrum" /\ pc = "sweep"
    /\ Len(mass_ratios) < Len(n_values)
    /\ mass_ratios' =
           Append(mass_ratios,
                  FDiv(get_mass_proxy(n_values[Len(mass_ratios) + 1]),
                       mass_proxy_e))
    /\ solve_calls' = Append(solve_calls, n_values[Len(mass_ratios) + 1])
    /\ UNCHANGED <<script, pc, raised, msInputs, mass_proxy_e, n_values,
                   msMatch, msReport, qsVars, fnVars, eqVars>>

\* Lines 59-70: the nearest entry to each target.  np.argmin of an empty
\* array raises ValueError.
ms_FindMatches ==
    /\ script = "mass_spectrum" /\ pc = "sweep"
    /\ Len(mass_ratios) = Len(n_values)
    /\ IF mass_ratios = <<>>
       THEN /\ pc' = "raised" /\ raised' = "ValueError"
            /\ UNCHANGED msMatch
       ELSE /\ idx_mu' = argmin(mass_ratios, Target_Ratio_Mu)
            /\ N_mu' = n_values[idx_mu' + 1]
            /\ ratio_mu' = mass_ratios[idx_mu' + 1]
            /\ idx_tau' = argmin(mass_ratios, Target_Ratio_Tau)
            /\ N_tau' = n_values[idx_tau' + 1]
            /\ ratio_tau' = mass_ratios[idx_tau' + 1]
            /\ pc' = "report" /\ UNCHANGED raised
    /\ UNCHANGED <<script, solve_calls, msInputs, msSweep, msReport,
                   qsVars, fnVars, eqVars>>

\* Lines 72-75: the predictions are printed, each with its error.
ms_Report ==
    /\ script = "mass_spectrum" /\ pc = "report"
    /\ error_mu' = ReportedError(ratio_mu, Target_Ratio_Mu)
    /\ error_tau' = ReportedError(ratio_tau, Target_Ratio_Tau)
    /\ pc' = "done"
    /\ UNCHANGED <<script, raised, solve_calls, msInputs, msSweep, msMatch,
                   qsVars, fnVars, eqVars>>

\* ------------------------------------------------------------------------
\* quantized_spectrum.py, plot_drift_spectrum()
\* ------------------------------------------------------------------------

\* Lines 21-23: the guess and the root for one N.
solve_q(N) == fsolve("quantized_spectrum", N, Guess(N))

\* xs[1:]: all but the first element.
DropFirst(xs) == IF xs = <<>> THEN <<>> ELSE SubSeq(xs, 2, Len(xs))

\* xs[:-1]: all but the last element, empty for an empty array.
DropLast(xs) == IF xs = <<>> THEN <<>> ELSE SubSeq(xs, 1, Len(xs) - 1)

\* ax.plot(xs, ys): the points drawn, for arrays of one length.
plot(xs, ys) == [i \in 1 .. Len(xs) |-> <<xs[i], ys[i]>>]

\* Line 16: N_values = np.arange(1, 21), its two literals drawn.
qsInit ==
    /\ script = "quantized_spectrum" /\ pc = "solve" /\ raised = "none"
    /\ solve_calls = <<>>
    /\ \E a \in 1 .. MaxHarmonic, b \in 0 .. (MaxHarmonic + 1) :
          N_values = arange(a, b)
    /\ m_values = <<>> /\ spacings = <<>> /\ spacing_plot = <<>>
    /\ msIdle /\ fnIdle /\ eqIdle

\* Lines 20-24, one turn of the loop: the root for the next N.
qs_Solve ==
    /\ script = "quantized_spectrum" /\ pc = "solve"
    /\ Len(m_values) < Len(N_values)
    /\ m_values' = Append(m_values, solve_q(N_values[Len(m_values) + 1]))
    /\ solve_calls' = Append(solve_calls, N_values[Len(m_values) + 1])
    /\ UNCHANGED <<script, pc, raised, N_values, spacings, spacing_plot,
                   msVars, fnVars, eqVars>>

\* Lines 27-28, one turn of the loop over range(len(m_values) - 1).
qs_Spacing ==
    /\ script = "quantized_spectrum" /\ pc = "solve"
    /\ Len(m_values) = Len(N_values)
    /\ Len(spacings) < Len(m_values) - 1
    /\ LET i == Len(spacings)
       IN  spacings' = Append(spacings, m_values[i + 1] - m_values[i + 2])
    /\ UNCHANGED <<ctlVars, N_values, m_values, spacing_plot,
                   msVars, fnVars, eqVars>>

\* Line 43: ax2.plot(N_values[:-1], spacings), the points it draws.
qs_Plot ==
    /\ script = "quantized_spectrum" /\ pc = "solve"
    /\ Len(m_values) = Len(N_values)
    /\ Len(spacings) >= Len(m_values) - 1
    /\ spacing_plot' = plot(DropLast(N_values), spacings)
    /\ pc' = "done"
    /\ UNCHANGED <<script, raised, solve_calls, N_values, m_values, spacings,
                   msVars, fnVars, eqVars>>

\* ------------------------------------------------------------------------
\* find_the_neutrino.py
\* ------------------------------------------------------------------------

fnInit ==
    /\ script = "find_the_neutrino" /\ pc = "anchor" /\ raised = "none"
    /\ solve_calls = <<>>
    /\ N_ELECTRON \in Indices /\ fn_mass_proxy_e = None
    /\ mass_proxy_2 = None /\ ratio_2 = None /\ predicted_mass_2_mev = None
    /\ mass_proxy_1 = None /\ ratio_1 = None /\ predicted_mass_1_mev = None
    /\ msIdle /\ qsIdle /\ eqIdle

\* Line 25: the anchor's proxy.  N_ELECTRON is a Python int: 0 raises
\* ZeroDivisionError in the guess.
fn_Anchor ==
    /\ script = "find_the_neutrino" /\ pc = "anchor"
    /\ IF N_ELECTRON = 0
       THEN /\ pc' = "raised" /\ raised' = "ZeroDivisionError"
            /\ UNCHANGED <<solve_calls, fn_mass_proxy_e>>
       ELSE /\ fn_mass_proxy_e' = solve_for_mass_proxy(N_ELECTRON)
            /\ solve_calls' = Append(solve_calls, N_ELECTRON)
            /\ pc' = "n2" /\ UNCHANGED raised
    /\ UNCHANGED <<script, N_ELECTRON, mass_proxy_2, ratio_2,
                   predicted_mass_2_mev, mass_proxy_1, ratio_1,
                   predicted_mass_1_mev, msVars, qsVars, eqVars>>

\* Lines 31-33: the N = 2 candidate.
fn_Candidate2 ==
    /\ script = "find_the_neutrino" /\ pc = "n2"
    /\ mass_proxy_2' = solve_for_mass_proxy(2)
    /\ ratio_2' = FDiv(mass_proxy_2', fn_mass_proxy_e)
    /\ predicted_mass_2_mev' = predicted_mass(ratio_2')
    /\ solve_calls' = Append(solve_calls, 2)
    /\ pc' = "n1"
    /\ UNCHANGED <<script, raised, N_ELECTRON, fn_mass_proxy_e, mass_proxy_1,
                   ratio_1, predicted_mass_1_mev, msVars, qsVars, eqVars>>

\* Lines 43-45: the N = 1 check.
fn_Candidate1 ==
    /\ script = "find_the_neutrino" /\ pc = "n1"
    /\ mass_proxy_1' = solve_for_mass_proxy(1)
    /\ ratio_1' = FDiv(mass_proxy_1', fn_mass_proxy_e)
    /\ predicted_mass_1_mev' = predicted_mass(ratio_1')
    /\ solve_calls' = Append(solve_calls, 1)
    /\ pc' = "done"
    /\ UNCHANGED <<script, raised, N_ELECTRON, fn_mass_proxy_e, mass_proxy_2,
                   ratio_2, predicted_mass_2_mev, msVars, qsVars, eqVars>>

\* ------------------------------------------------------------------------
\* The scripts
\* ------------------------------------------------------------------------

Init == msInit \/ qsInit \/ fnInit

Next ==
    \/ ms_Anchor \/ ms_Sweep \/ ms_FindMatches \/ ms_Report
    \/ qs_Solve \/ qs_Spacing \/ qs_Plot
    \/ fn_Anchor \/ fn_Candidate2 \/ fn_Candidate1

Spec == Init /\ [][Next]_vars

\* ------------------------------------------------------------------------
\* The nearest-ratio search on any curve
\* ------------------------------------------------------------------------

\* The longest curve the search is run on.
MaxLen == 3

\* The ratios a curve is drawn from: 0.8, 1.0, 3.1, 3.2.
Ratios == {(8 * Scale) \div 10, Scale, (31 * Scale) \div 10, (32 * Scale) \div 10}

\* The index arrays of length k in strictly ascending order.
Ascending(k) ==
    {s \in [1 .. k -> 1 .. MaxN] : \A i \in 1 .. (k - 1) : s[i] < s[i + 1]}

\* analyze_mass_spectrum() at line 59, its sweep finished with any curve.
MatchInit ==
    /\ script = "mass_spectrum" /\ pc = "sweep" /\ raised = "none"
    /\ solve_calls = <<>>
    /\ N_e = None /\ n_start = None /\ n_stop = None /\ mass_proxy_e = None
    /\ \E p \in TargetPairs : Target_Ratio_Mu = p[1] /\ Target_Ratio_Tau = p[2]
    /\ \E k \in 0 .. MaxLen :
          /\ n_values \in Ascending(k)
          /\ mass_ratios \in [1 .. k -> Ratios]
    /\ idx_mu = None /\ N_mu = None /\ ratio_mu = None /\ error_mu = None
    /\ idx_tau = None /\ N_tau = None /\ ratio_tau = None /\ error_tau = None
    /\ qsIdle /\ fnIdle /\ eqIdle

MatchNext == ms_FindMatches \/ ms_Report

MatchSpec == MatchInit /\ [][MatchNext]_vars

\* ------------------------------------------------------------------------
\* One evaluation of an equation function
\* ------------------------------------------------------------------------

\* The candidate iterates: inside, on and outside the domain [-1, 1].
EqPoints ==
    {-(2 * Scale), -(Scale + 1), -Scale, -(Scale \div 2), 0, Scale \div 2,
     Scale, Scale + 1, 2 * Scale, Inf, NaN}

EqInit ==
    /\ script = "equation" /\ pc = "call" /\ raised = "none"
    /\ solve_calls = <<>>
    /\ eq_solver \in Solvers /\ eq_m \in EqPoints /\ eq_N \in Indices
    /\ eq_value = None
    /\ msIdle /\ qsIdle /\ fnIdle

\* The solver calls the script's equation function at the candidate eq_m.
eq_Evaluate ==
    /\ script = "equation" /\ pc = "call"
    /\ eq_value' = Equation(eq_solver, eq_m, eq_N)
    /\ pc' = "done"
    /\ UNCHANGED <<script, raised, solve_calls, eq_solver, eq_m, eq_N,
                   msVars, qsVars, fnVars>>

EqNext == eq_Evaluate

EquationSpec == EqInit /\ [][EqNext]_vars

\* ------------------------------------------------------------------------
\* analyze_mass_spectrum() as the script runs it, with its own literals
\* ------------------------------------------------------------------------

\* Lines 17-19: the lepton masses in MeV/c^2.
M_e == (5110 * Scale) \div 10000
M_mu == 105 * Scale + (6580 * Scale) \div 10000
M_tau == 1776 * Scale + (8600 * Scale) \div 10000

\* Line 46: N_e = 3.
ANCHOR_N == 3

\* Line 51: the two literals of np.arange(2, 12000).
SWEEP_START == 2
SWEEP_STOP == 12000

\* Line 50: "We calculate the mass curve for N=1 to 12,000".
COMMENT_FIRST == 1
COMMENT_LAST == 12000

\* Lines 17-22 and 46-52: the state the script starts its run in.
ScriptInit ==
    /\ script = "mass_spectrum" /\ pc = "anchor" /\ raised = "none"
    /\ solve_calls = <<>>
    /\ N_e = ANCHOR_N /\ n_start = SWEEP_START /\ n_stop = SWEEP_STOP
    /\ Target_Ratio_Mu = FDiv(M_mu, M_e)
    /\ Target_Ratio_Tau = FDiv(M_tau, M_e)
    /\ mass_proxy_e = None /\ n_values = <<>> /\ mass_ratios = <<>>
    /\ idx_mu = None /\ N_mu = None /\ ratio_mu = None /\ error_mu = None
    /\ idx_tau = None /\ N_tau = None /\ ratio_tau = None /\ error_tau = None
    /\ qsIdle /\ fnIdle /\ eqIdle

ScriptNext == ms_Anchor \/ ms_Sweep \/ ms_FindMatches \/ ms_Report

ScriptSpec == ScriptInit /\ [][ScriptNext]_vars

\* ------------------------------------------------------------------------
\* Properties
\* ------------------------------------------------------------------------

\* The sweep loop of analyze_mass_spectrum() has run to its end.
SweepFinished ==
    /\ script = "mass_spectrum"
    /\ pc \in {"sweep", "report", "done"} \/ raised = "ValueError"
    /\ Len(mass_ratios) = Len(n_values)

\* The matches of analyze_mass_spectrum() have been made.
Matched == script = "mass_spectrum" /\ pc \in {"report", "done"}

\* Entry i of the curve is nearest to the target, and of the entries as near
\* it has the smallest N.
NearestSmallestN(i, target) ==
    /\ i \in 1 .. Len(mass_ratios)
    /\ \A j \in 1 .. Len(mass_ratios) :
          /\ Abs(mass_ratios[i] - target) <= Abs(mass_ratios[j] - target)
          /\ Abs(mass_ratios[j] - target) = Abs(mass_ratios[i] - target)
                => n_values[i] <= n_values[j]

\* C1: on every non-empty curve with ascending N and for every target, the
\* match is an entry of the curve whose |ratio - target| is least over the
\* whole curve, and among the entries that attain the least it is the one
\* with the smallest N.
C1_MatchIsNearestSmallestN ==
    Matched =>
        /\ NearestSmallestN(idx_mu + 1, Target_Ratio_Mu)
        /\ N_mu = n_values[idx_mu + 1] /\ ratio_mu = mass_ratios[idx_mu + 1]
        /\ NearestSmallestN(idx_tau + 1, Target_Ratio_Tau)
        /\ N_tau = n_values[idx_tau + 1] /\ ratio_tau = mass_ratios[idx_tau + 1]

\* A match made where two entries are equally near the target and the
\* first of them was returned.
C1_Witness ==
    /\ Matched
    /\ \E i, j \in 1 .. Len(mass_ratios) :
          /\ i < j /\ i = idx_tau + 1
          /\ mass_ratios[i] # mass_ratios[j]
          /\ Abs(mass_ratios[i] - Target_Ratio_Tau)
                = Abs(mass_ratios[j] - Target_Ratio_Tau)

\* |ratio - target| / target, the absolute fractional error, for target > 0.
AbsFractionalError(ratio, target) == DivParts(Abs(ratio - target), target)

\* The curve {N=2: 0.8, N=3: 1.0, N=5: 3.2} matched against 3.15.
ExampleCurve ==
    /\ n_values = <<2, 3, 5>>
    /\ mass_ratios = <<(8 * Scale) \div 10, Scale, (32 * Scale) \div 10>>
    /\ Target_Ratio_Tau = (315 * Scale) \div 100

\* C2, as amended: the error reported for a target is the absolute
\* fractional error |ratio - target| / target of the matched entry expressed
\* as a percentage, that is 100 times the fraction (to one unit of rounding
\* in the quotient); for the curve {2: 0.8, 3: 1.0, 5: 3.2} the match of 3.15
\* is N = 5 with error 100 * |3.2 - 3.15| / 3.15.
C2_ErrorIsPercentage ==
    (script = "mass_spectrum" /\ pc = "done") =>
        /\ Abs(error_mu - 100 * AbsFractionalError(ratio_mu, Target_Ratio_Mu))
              <= 100
        /\ Abs(error_tau - 100 * AbsFractionalError(ratio_tau, Target_Ratio_Tau))
              <= 100
        /\ ExampleCurve =>
              /\ N_tau = 5
              /\ error_tau = 100 * AbsFractionalError((32 * Scale) \div 10,
                                                      (315 * Scale) \div 100)

\* The report made for the example curve.
C2_Witness ==
    /\ script = "mass_spectrum" /\ pc = "done" /\ ExampleCurve
    /\ N_tau = 5 /\ error_tau > 0

\* C2, as claimed: the error reported is the fraction |ratio - target| /
\* target itself, not a percentage.
C2_ErrorIsFraction ==
    (script = "mass_spectrum" /\ pc = "done") =>
        /\ Abs(error_mu - AbsFractionalError(ratio_mu, Target_Ratio_Mu)) <= 1
        /\ Abs(error_tau - AbsFractionalError(ratio_tau, Target_Ratio_Tau)) <= 1

\* The sweep's bounds satisfy 1 <= N_min <= N_anchor <= N_max.
ValidBounds == 1 <= n_start /\ n_start <= N_e /\ N_e <= n_stop

\* C3: with bounds that violate 1 <= N_min <= N_anchor <= N_max the sweep
\* raises InvalidIndex at once: no solver call is made and no curve entry is
\* produced.
C3_InvalidBoundsRaiseAtOnce ==
    (script = "mass_spectrum" /\ N_e # None /\ pc # "anchor" /\ ~ValidBounds) =>
        /\ raised = "InvalidIndex"
        /\ solve_calls = <<>>
        /\ mass_ratios = <<>>

\* C4: for N_min <= N_anchor <= N_max the finished curve has an entry for
\* N_anchor whose ratio is exactly 1.0, and the sweep N_min = N_max = N_anchor
\* yields exactly one entry.
C4_AnchorRatioIsOne ==
    (SweepFinished /\ N_e # None /\ ValidBounds) =>
        /\ \E i \in 1 .. Len(n_values) :
              n_values[i] = N_e /\ mass_ratios[i] = Scale
        /\ (n_start = n_stop) => Len(mass_ratios) = 1

\* C5: the finished curve has exactly one entry for every integer N with
\* N_min <= N <= N_max, both bounds included, and no other, in strictly
\* ascending order of N.
C5_SweepCoversBounds ==
    (SweepFinished /\ N_e # None /\ 1 <= n_start /\ n_start <= n_stop) =>
        /\ Len(n_values) = n_stop - n_start + 1
        /\ \A i \in 1 .. Len(n_values) : n_values[i] = n_start + i - 1

\* C6: a solver called with N < 1 is rejected with InvalidIndex before the
\* guess is computed; it never returns a root for such an N.
C6_SolveRejectsNonPositive ==
    /\ \A i \in 1 .. Len(solve_calls) : solve_calls[i] >= 1
    /\ (script = "mass_spectrum" /\ N_e # None /\ N_e < 1 /\ pc # "anchor")
          => raised = "InvalidIndex"
    /\ (script = "find_the_neutrino" /\ N_ELECTRON < 1 /\ pc # "anchor")
          => raised = "InvalidIndex"

\* C7: a root that the solver returns outside (-1, 1), or not finite, is
\* surfaced as SolverDivergence and the sweep aborts: no curve holds an entry
\* whose root lies outside (-1, 1) or whose ratio is not a finite number.
C7_NoDivergedEntry ==
    /\ \A i \in 1 .. Len(mass_ratios) :
          /\ IsFinite(mass_ratios[i])
          /\ N_e # None =>
                /\ IsFinite(solve_drift(n_values[i]))
                /\ Abs(solve_drift(n_values[i])) < Scale
    /\ \A i \in 1 .. Len(m_values) :
          IsFinite(m_values[i]) /\ Abs(m_values[i]) < Scale

\* C8: the roots the sweep retains are strictly decreasing in N, for N >= 1,
\* so every spacing m(N) - m(N+1) is strictly positive.
C8_RootsStrictlyDecreasing ==
    script = "quantized_spectrum" =>
        /\ \A i, j \in 1 .. Len(m_values) :
              (i < j /\ N_values[i] >= 1) => m_values[j] < m_values[i]
        /\ \A k \in 1 .. Len(spacings) : spacings[k] > 0

\* The finished sweep of the script as written, N = 1 to 20.
C8_Witness ==
    /\ script = "quantized_spectrum" /\ pc = "done"
    /\ N_values = arange(1, 21)
    /\ Len(m_values) = 20 /\ Len(spacings) = 19

\* C9: in every solver, the equation function at a candidate m with
\* |m| > 1 returns the penalty +100 instead of evaluating sqrt(1 - m^2) and
\* arccos(-m) there.
C9_OutOfDomainIsPenalised ==
    (/\ script = "equation" /\ pc = "done"
     /\ eq_m = Inf \/ (IsFinite(eq_m) /\ Abs(eq_m) > Scale))
        => eq_value = Penalty

\* C10: for a sweep over N_min..N_max the spacing is defined for exactly the
\* N with N_min <= N < N_max, one fewer than the roots, and the spacing drawn
\* at N is m(N) - m(N+1): the i-th spacing goes with the i-th index.
C10_SpacingPairedWithIndex ==
    (script = "quantized_spectrum" /\ pc = "done") =>
        /\ LET swept == {N_values[i] : i \in 1 .. Len(N_values)}
           IN  {spacing_plot[i][1] : i \in 1 .. Len(spacing_plot)}
                  = {N \in swept : N + 1 \in swept}
        /\ N_values # <<>> => Len(spacing_plot) = Len(m_values) - 1
        /\ \A i \in 1 .. Len(spacing_plot) :
              /\ spacing_plot[i][1] = N_values[i]
              /\ spacing_plot[i][2]
                    = solve_q(spacing_plot[i][1]) - solve_q(spacing_plot[i][1] + 1)

\* A finished sweep with at least two spacings drawn.
C10_Witness ==
    /\ script = "quantized_spectrum" /\ pc = "done"
    /\ Len(spacing_plot) >= 2

\* The N that line 51 puts in the sweep.
SweptN == {n_values[i] : i \in 1 .. Len(n_values)}

\* C11: the mass spectrum generated by analyze_mass_spectrum() covers N = 1
\* to 12,000: from line 51 on the sweep holds N = 1, N = 12000 and every
\* integer in between, and the finished curve has an entry for each of them.
C11_SweepCoversOneTo12000 ==
    (script = "mass_spectrum" /\ pc \in {"sweep", "report", "done"}) =>
        /\ \A N \in COMMENT_FIRST .. COMMENT_LAST : N \in SweptN
        /\ SweepFinished => Len(mass_ratios) = Len(n_values)

\* What the finished run does cover: exactly the N of np.arange(2, 12000),
\* that is 2 to 11999, one entry each in ascending order; neither N = 1 nor
\* N = 12000 has an entry.
C11_SweepCoversArange ==
    (script = "mass_spectrum" /\ pc = "done") =>
        /\ Len(mass_ratios) = SWEEP_STOP - SWEEP_START
        /\ Len(n_values) = Len(mass_ratios)
        /\ \A i \in 1 .. Len(n_values) : n_values[i] = SWEEP_START + i - 1
        /\ SweptN = SWEEP_START .. (SWEEP_STOP - 1)
        /\ COMMENT_FIRST \notin SweptN /\ COMMENT_LAST \notin SweptN

=============================================================================
